---- MODULE Spec2Model ----
(***************************************************************************)
(* Model of the Redis connector: the source dispatcher (source/source.go), *)
(* the stream iterator (source/iterator/stream.go) with its poll and flush *)
(* goroutines, the tomb that supervises them, and the destination writer   *)
(* (destination/destination.go).                                           *)
(*                                                                         *)
(* A connector instance is either a source or a destination (role).  The   *)
(* store (Redis) is the environment: it holds the stream `log`, answers    *)
(* TYPE, XREAD, XADD and PUBLISH, and may fail a command.                  *)
(***************************************************************************)
EXTENDS Integers, Sequences, FiniteSets, TLC

\* ------------------------------------------------------------------ bounds
MaxLog == 3          \* entries the environment appends to the stream
MaxTeardown == 2     \* Source.Teardown / Destination.Teardown calls made by the host
MaxWrite == 2        \* records in one Destination.Write call
MaxStore == 2        \* messages the destination's store accepts in a run
MaxResp == 2         \* entries in a read response given to toRecords directly

\* --------------------------------------------------------------- constants
recordsPerCall == 1000
chanCap == 1
tombGoroutines == 2
WallClockMs == 7777

keyTypeNone == "none"
keyTypeStream == "stream"
ModePubSub == "pubsub"
ModeStream == "stream"
RedisKey == "mystream"

\* ------------------------------------------------------------------ errors
\* An error is the chain of its messages, outermost first; nil is <<>>.
NilErr == <<>>
Wrap(msg, err) == <<msg>> \o err
ErrStillAlive == <<"tomb: still alive">>
ErrStopped == <<"iterator stopped">>
ErrCanceled == <<"context canceled">>
ErrNil == <<"redigo: nil returned">>
ErrConn == <<"connection failure">>
ErrClosed == <<"redigo: closed">>
ErrBackoffRetry == <<"backoff retry">>
ErrOddValues == <<"arrInterfaceToMap expects even number of values result">>

VARIABLES
    role,           \* "source" | "destination": what this connector instance is
    mode,           \* config.Mode
    position,       \* resume position given to Source.Open (<<>> is the empty position)
    keyType,        \* the store's answer to TYPE key
    log,            \* the store's stream: sequence of [id, fieldList]
    srcIter,        \* Source.iterator: "nil" | "stream" | "pubsub"
    openErr,        \* <<"pending">> before Open returned, else Open's error
    client,         \* StreamIterator.client: "none" | "conn" | "nil"
    connClosed,     \* the connection object has been closed
    closeCalls,     \* number of Close calls on the source's connection
    stopCalls,      \* number of Stop calls on the iterator
    lastID,         \* StreamIterator.lastID (the cursor)
    tickerC,        \* ticks waiting in ticker.C (capacity 1)
    tickerStopped,  \* ticker.Stop was called
    caches,         \* channel of batches (capacity 1)
    cachesClosed,
    buffer,         \* channel of records (capacity 1)
    bufferClosed,
    reason,         \* tomb.reason
    dying,          \* tomb.dying is closed
    alive,          \* tomb.alive: goroutines tracked and not yet returned
    pollPc,         \* poll goroutine: "none","select","read","handoff","done","panic"
    pollRecords,    \* the decoded batch the poll goroutine holds
    pollErr,        \* the poll goroutine's return value
    flushPc,        \* flush goroutine: "none","select","push","done"
    flushCache,     \* records of the current batch not yet pushed
    flushErr,       \* the flush goroutine's return value
    readPc,         \* consumer inside Source.Read: "idle", or "next" inside Next
    readResult,     \* what the last Read returned: [kind, rec, err]
    delivered,      \* records Read has returned with a nil error, in order
    hostPc,         \* host inside Source.Teardown: "idle","close","clear"
    teardownErr,    \* what the last Teardown returned
    dClient,        \* Destination.client: "nil" | "conn"
    dOpenErr,       \* <<"pending">> before Destination.Open returned, else its error
    dStore,         \* what the destination's store has applied, in order
    dRecs,          \* argument of the last Write
    dIssued,        \* commands the last Write issued, in order
    dWritten,       \* count the last Write returned
    dWriteErr,      \* error the last Write returned
    dCloseCalls,
    decResp,        \* a read response the store sends whatever the log holds (<<>>: none)
    decOut          \* what toRecords returned for decResp: [done, records, err]

\* What no operation of the connector changes: its configuration and the
\* response the store has been set up to send.
cfgVars == <<role, mode, position, decResp>>
storeVars == <<keyType, log>>
srcVars == <<srcIter, openErr>>
connVars == <<client, connClosed, closeCalls, stopCalls>>
tickVars == <<tickerC, tickerStopped>>
chanVars == <<caches, cachesClosed, buffer, bufferClosed>>
tombVars == <<reason, dying, alive>>
pollVars == <<pollPc, pollRecords, pollErr, lastID>>
flushVars == <<flushPc, flushCache, flushErr>>
readVars == <<readPc, readResult, delivered>>
hostVars == <<hostPc, teardownErr>>
destVars == <<dClient, dOpenErr, dStore, dRecs, dIssued, dWritten, dWriteErr, dCloseCalls>>

vars == <<cfgVars, storeVars, srcVars, connVars, tickVars, chanVars, tombVars,
          pollVars, flushVars, readVars, hostVars, destVars, decOut>>

Pending == <<"pending">>

\* ---------------------------------------------------------------- the store
\* Stream ids are <ms>-<seq>; the store orders them by ms, then seq.
ZeroID == <<0, 0>>
IdLess(a, b) == a[1] < b[1] \/ (a[1] = b[1] /\ a[2] < b[2])

\* The id the store assigns to its n-th entry: 1-0, 1-1, 2-0, 2-1, ...
EntryId(n) == <<(n + 1) \div 2, (n + 1) % 2>>
EntryFields(n) == <<"field", IF n % 2 = 0 THEN "even" ELSE "odd">>

Min(a, b) == IF a < b THEN a ELSE b

\* SelectSeq with the store's ordering: entries of l after id, oldest first.
EntriesAfter(l, id) == SelectSeq(l, LAMBDA e : IdLess(id, e.id))

\* (mutant: the id given to XREAD is ignored, the stream is read from its start)
XRead_ignoresId(l, id, count) ==
    LET es == l
        n == Min(Len(es), count)
    IN  IF n = 0
        THEN [err |-> ErrNil, resp |-> <<>>]
        ELSE [err |-> NilErr,
              resp |-> << [key |-> RedisKey,
                           idList |-> [k \in 1..n |->
                               [position |-> es[k].id, fieldList |-> es[k].fields]]] >>]

\* (mutant: nothing newer is answered with an empty entry list, not the nil reply)
XRead_emptyReply(l, id, count) ==
    LET es == EntriesAfter(l, id)
        n == Min(Len(es), count)
    IN  [err |-> NilErr,
         resp |-> << [key |-> RedisKey,
                      idList |-> [k \in 1..n |->
                          [position |-> es[k].id, fieldList |-> es[k].fields]]] >>]

\* XREAD COUNT count STREAMS key id: the nil reply when nothing is newer,
\* else one per-key element carrying up to count entries.
XRead(l, id, count) ==
    LET es == EntriesAfter(l, id)
        n == Min(Len(es), count)
    IN  IF n = 0
        THEN [err |-> ErrNil, resp |-> <<>>]
        ELSE [err |-> NilErr,
              resp |-> << [key |-> RedisKey,
                           idList |-> [k \in 1..n |->
                               [position |-> es[k].id, fieldList |-> es[k].fields]]] >>]

\* ----------------------------------------------------------------- decoding
EmptyRecord ==
    [Position |-> <<>>, Operation |-> "", Metadata |-> [key |-> "", createdAt |-> 0],
     Key |-> "", Payload |-> {}]

\* (mutant: the first pair with a name wins instead of the last)
arrInterfaceToMap_firstWins(values) ==
    IF Len(values) % 2 # 0
    THEN [m |-> {}, err |-> ErrOddValues]
    ELSE LET names == {values[2 * j - 1] : j \in 1..(Len(values) \div 2)}
             firstIdx(nm) == CHOOSE j \in 1..(Len(values) \div 2) :
                                /\ values[2 * j - 1] = nm
                                /\ \A j2 \in 1..(Len(values) \div 2) :
                                       values[2 * j2 - 1] = nm => j2 >= j
         IN  [m |-> {<<nm, values[2 * firstIdx(nm)]>> : nm \in names}, err |-> NilErr]

\* (mutant: the length of the field list is not checked)
arrInterfaceToMap_noLengthCheck(values) ==
    LET names == {values[2 * j - 1] : j \in 1..(Len(values) \div 2)}
        lastIdx(nm) == CHOOSE j \in 1..(Len(values) \div 2) :
                           /\ values[2 * j - 1] = nm
                           /\ \A j2 \in 1..(Len(values) \div 2) :
                                  values[2 * j2 - 1] = nm => j2 <= j
    IN  [m |-> {<<nm, values[2 * lastIdx(nm)]>> : nm \in names}, err |-> NilErr]

\* arrInterfaceToMap: fold name/value pairs into a map, a later pair with the
\* same name replacing an earlier one.  The map is the set of its pairs.
arrInterfaceToMap(values) ==
    IF Len(values) % 2 # 0
    THEN [m |-> {}, err |-> ErrOddValues]
    ELSE LET names == {values[2 * j - 1] : j \in 1..(Len(values) \div 2)}
             lastIdx(nm) == CHOOSE j \in 1..(Len(values) \div 2) :
                                /\ values[2 * j - 1] = nm
                                /\ \A j2 \in 1..(Len(values) \div 2) :
                                       values[2 * j2 - 1] = nm => j2 <= j
         IN  [m |-> {<<nm, values[2 * lastIdx(nm)]>> : nm \in names}, err |-> NilErr]

\* getTimeFromPosition: the leading component of the id, wall clock when it is 0.
getTimeFromPosition(pos) == IF pos[1] = 0 THEN WallClockMs ELSE pos[1]

\* Entries of one key, decoded left to right.  st = [records, createdAt, err]:
\* createdAt is the value last stored in the key's (single) metadata map.
RECURSIVE decodeIds(_, _, _)
decodeIds(idList, k, st) ==
    IF k > Len(idList) \/ st.err # NilErr
    THEN st
    ELSE LET r == arrInterfaceToMap(idList[k].fieldList)
         IN  IF r.err # NilErr
             THEN [st EXCEPT !.err = Wrap("error converting the []interface{} to map", r.err)]
             ELSE decodeIds(idList, k + 1,
                      [st EXCEPT !.createdAt = getTimeFromPosition(idList[k].position),
                                 !.records = Append(@, [pos |-> idList[k].position, m |-> r.m])])

\* toRecords: one metadata map per key element, shared by the records of that
\* element; on a field-list error the records decoded so far are returned with
\* the error.
RECURSIVE toRecordsFrom(_, _, _)
toRecordsFrom(resp, j, acc) ==
    IF j > Len(resp) \/ acc.err # NilErr
    THEN acc
    ELSE LET st == decodeIds(resp[j].idList, 1, [records |-> <<>>, createdAt |-> 0, err |-> NilErr])
             recs == [k \in 1..Len(st.records) |->
                         [Position |-> st.records[k].pos,
                          Operation |-> "create",
                          Metadata |-> [key |-> resp[j].key, createdAt |-> st.createdAt],
                          Key |-> resp[j].key,
                          Payload |-> st.records[k].m]]
         IN  toRecordsFrom(resp, j + 1, [records |-> acc.records \o recs, err |-> st.err])

toRecords(resp) == toRecordsFrom(resp, 1, [records |-> <<>>, err |-> NilErr])

NotDecoded == [done |-> FALSE, records |-> <<>>, err |-> NilErr]

\* Read responses of up to MaxResp entries: an id with or without a
\* timestamp, a field list of one pair, of two pairs with the same name, or
\* with a dangling name; the entries under one key element or split over two.
RespIds == {<<0, 1>>, <<1, 0>>, <<2, 0>>}
RespFieldLists == {<<"f", "v">>, <<"f", "v", "f", "w">>, <<"f">>}
RespEntries == [position : RespIds, fieldList : RespFieldLists]
RespEntryLists == UNION {[1..n -> RespEntries] : n \in 0..MaxResp}
SplitResp(es, s) ==
    IF s = Len(es)
    THEN << [key |-> RedisKey, idList |-> es] >>
    ELSE << [key |-> RedisKey, idList |-> SubSeq(es, 1, s)],
            [key |-> "other", idList |-> SubSeq(es, s + 1, Len(es))] >>
Responses == UNION {{SplitResp(es, s) : s \in 0..Len(es)} : es \in RespEntryLists}

\* A reply whose k-th entry lost the value of its last field.
Truncated(resp, k) ==
    << [resp[1] EXCEPT !.idList[k].fieldList = SubSeq(@, 1, Len(@) - 1)] >>

\* ------------------------------------------------------------------ the tomb
\* (mutant: the last reason wins)
KillReason_lastWins(r, why) == why

\* tomb.Kill: the first reason wins and closes dying; a nil reason is replaced.
KillReason(r, why) ==
    IF r = ErrStillAlive THEN why
    ELSE IF r = NilErr THEN why
    ELSE r

Alive == reason = ErrStillAlive

Kill(why) ==
    /\ reason' = KillReason(reason, why)
    /\ dying' = TRUE

\* The process is gone once a goroutine has panicked.
Running == pollPc # "panic"

\* ----------------------------------------------------------------- Iterator
\* (mutant: HasNext that forgets the tomb)
HasNext_bufferOnly == Len(buffer) > 0

\* (mutant: HasNext always says yes)
HasNext_always == TRUE

\* StreamIterator.HasNext
HasNext == Len(buffer) > 0 \/ ~Alive

\* (mutant: the resume position is ignored)
StartID_ignoresPosition(pos) == ZeroID

\* (mutant: an empty position starts after the first entry instead of at 0-0)
StartID_skipsFirst(pos) == IF pos = <<>> THEN <<1, 0>> ELSE pos

\* The cursor NewStreamIterator starts from.
StartID(pos) == IF pos = <<>> THEN ZeroID ELSE pos

\* (mutant: the cursor is set to the first record of the batch)
LastPosition_first(records) == records[1].Position

LastPosition(records) == records[Len(records)].Position

Positions(records) == [k \in 1..Len(records) |-> records[k].Position]


\* ------------------------------------------------------------------- Init
\* Nothing has been opened yet.
Unopened ==
    /\ log = <<>>
    /\ srcIter = "nil"
    /\ openErr = Pending
    /\ client = "none"
    /\ connClosed = FALSE
    /\ closeCalls = 0
    /\ stopCalls = 0
    /\ lastID = <<>>
    /\ tickerC = 0
    /\ tickerStopped = FALSE
    /\ caches = <<>>
    /\ cachesClosed = FALSE
    /\ buffer = <<>>
    /\ bufferClosed = FALSE
    /\ reason = ErrStillAlive
    /\ dying = FALSE
    /\ alive = 0
    /\ pollPc = "none"
    /\ pollRecords = <<>>
    /\ pollErr = NilErr
    /\ flushPc = "none"
    /\ flushCache = <<>>
    /\ flushErr = NilErr
    /\ readPc = "idle"
    /\ readResult = [kind |-> "none", rec |-> EmptyRecord, err |-> NilErr]
    /\ delivered = <<>>
    /\ hostPc = "idle"
    /\ teardownErr = NilErr
    /\ dClient = "nil"
    /\ dOpenErr = Pending
    /\ dStore = <<>>
    /\ dRecs = <<>>
    /\ dIssued = <<>>
    /\ dWritten = 0
    /\ dWriteErr = NilErr
    /\ dCloseCalls = 0
    /\ decOut = NotDecoded


Init ==
    /\ role \in {"source", "destination"}
    /\ mode \in {ModePubSub, ModeStream, "bogus"}
    /\ position \in IF role = "source" THEN {<<>>, EntryId(1)} ELSE {<<>>}
    /\ keyType \in {keyTypeNone, keyTypeStream, "string"}
    /\ decResp = <<>>
    /\ Unopened

\* ------------------------------------------------------------ environment
\* XADD by some producer: the store appends an entry with the next id.
AppendEntry ==
    /\ role = "source"
    /\ Len(log) < MaxLog
    /\ keyType \in {keyTypeNone, keyTypeStream}
    /\ log' = Append(log, [id |-> EntryId(Len(log) + 1), fields |-> EntryFields(Len(log) + 1)])
    /\ keyType' = keyTypeStream
    /\ UNCHANGED <<cfgVars, decOut, srcVars, connVars, tickVars, chanVars, tombVars, pollVars,
                   flushVars, readVars, hostVars, destVars>>

\* The ticker delivers a tick; a tick is dropped while one is still waiting.
Tick ==
    /\ Running
    /\ pollPc # "none"
    /\ ~tickerStopped
    /\ tickerC < chanCap
    /\ tickerC' = tickerC + 1
    /\ UNCHANGED <<tickerStopped, cfgVars, decOut, storeVars, srcVars, connVars, chanVars, tombVars,
                   pollVars, flushVars, readVars, hostVars, destVars>>

\* The context given to Open is cancelled: the tomb made by tomb.WithContext
\* is killed with the context's error.
OpenCtxCancel ==
    /\ Running
    /\ pollPc # "none"
    /\ Alive
    /\ Kill(ErrCanceled)
    /\ UNCHANGED <<alive, cfgVars, decOut, storeVars, srcVars, connVars, tickVars, chanVars,
                   pollVars, flushVars, readVars, hostVars, destVars>>

\* ------------------------------------------------------------ Source.Open
\* NewStreamIterator past the key-type check: the iterator's fields, the tomb
\* and the two goroutines.
StartStreamIterator ==
    /\ client' = "conn"
    /\ lastID' = StartID(position)
    /\ tickerC' = 0
    /\ tickerStopped' = FALSE
    /\ caches' = <<>>
    /\ buffer' = <<>>
    /\ reason' = ErrStillAlive
    /\ dying' = FALSE
    /\ alive' = tombGoroutines
    /\ pollPc' = "select"
    /\ flushPc' = "select"
    /\ UNCHANGED <<connClosed, closeCalls, stopCalls, cachesClosed, bufferClosed,
                   pollRecords, pollErr, flushCache, flushErr>>

NoIterator ==
    UNCHANGED <<connVars, tickVars, chanVars, tombVars, pollVars, flushVars>>

\* (mutant: the type of the key is fetched but not compared)
KeyTypeErr_noCompare(typeOk, kt) ==
    IF ~typeOk THEN Wrap("error fetching type of key", ErrConn) ELSE NilErr

\* The key-type check shared by NewStreamIterator and Destination.validateKey.
KeyTypeErr(typeOk, kt) ==
    IF ~typeOk THEN Wrap("error fetching type of key", ErrConn)
    ELSE IF kt # keyTypeNone /\ kt # keyTypeStream
         THEN <<"invalid key type, expected none or stream">>
         ELSE NilErr

SourceOpen ==
    /\ Running
    /\ role = "source"
    /\ openErr = Pending
    /\ \E dialOk \in BOOLEAN, typeOk \in BOOLEAN, subOk \in BOOLEAN :
        IF ~dialOk
        THEN /\ openErr' = Wrap("failed to connect redis client", ErrConn)
             /\ srcIter' = srcIter
             /\ NoIterator
        ELSE IF mode = ModePubSub
        THEN /\ openErr' = IF subOk THEN NilErr
                           ELSE Wrap("couldn't create a pubsub iterator", ErrConn)
             /\ srcIter' = IF subOk THEN "pubsub" ELSE "nil"
             /\ NoIterator
        ELSE IF mode = ModeStream
        THEN LET e == KeyTypeErr(typeOk, keyType)
             IN  IF e # NilErr
                 THEN /\ openErr' = Wrap("couldn't create a stream iterator", e)
                      /\ srcIter' = "nil"
                      /\ NoIterator
                 ELSE /\ openErr' = NilErr
                      /\ srcIter' = "stream"
                      /\ StartStreamIterator
        ELSE /\ openErr' = <<"invalid mode encountered">>
             /\ srcIter' = srcIter
             /\ NoIterator
    /\ UNCHANGED <<cfgVars, decOut, storeVars, readVars, hostVars, destVars>>

\* ------------------------------------------------------------------ tomb.run
\* (mutant: a goroutine's error does not kill the tomb)
TombReturn_ignoresErr(err) ==
    /\ alive' = alive - 1
    /\ IF alive - 1 = 0
       THEN Kill(err)
       ELSE UNCHANGED <<reason, dying>>

\* tomb.run after a goroutine's function returned err: alive--, and kill(err)
\* when it was the last goroutine or err is not nil.
TombReturn(err) ==
    /\ alive' = alive - 1
    /\ IF alive - 1 = 0 \/ err # NilErr
       THEN Kill(err)
       ELSE UNCHANGED <<reason, dying>>

\* ------------------------------------------------- poll goroutine (startIterator)
\* (mutant: the poll goroutine returns without closing i.caches)
PollExit_noClose(err) ==
    /\ pollPc' = "done"
    /\ pollErr' = err
    /\ pollRecords' = <<>>
    /\ cachesClosed' = cachesClosed
    /\ TombReturn(err)

\* The function returns err: the deferred close(i.caches), then tomb.run.
PollExit(err) ==
    /\ pollPc' = "done"
    /\ pollErr' = err
    /\ pollRecords' = <<>>
    /\ cachesClosed' = TRUE
    /\ TombReturn(err)

\* case <-i.tomb.Dying(): return i.tomb.Err()
PollDying ==
    /\ Running
    /\ pollPc = "select"
    /\ dying
    /\ PollExit(reason)
    /\ UNCHANGED <<lastID, caches, buffer, bufferClosed, cfgVars, decOut, storeVars, srcVars,
                   connVars, tickVars, flushVars, readVars, hostVars, destVars>>

\* case <-i.ticker.C
PollTick ==
    /\ Running
    /\ pollPc = "select"
    /\ tickerC > 0
    /\ tickerC' = tickerC - 1
    /\ pollPc' = "read"
    /\ UNCHANGED <<pollRecords, pollErr, lastID, tickerStopped, cfgVars, decOut, storeVars, srcVars,
                   connVars, chanVars, tombVars, flushVars, readVars, hostVars, destVars>>

\* What the poll goroutine does with the reply of XREAD.
PollOnReply(r) ==
    IF r.err = ErrNil
    THEN /\ pollPc' = "select"
         /\ UNCHANGED <<pollRecords, pollErr, cachesClosed, tombVars>>
    ELSE IF r.err # NilErr
    THEN PollExit(Wrap("error reading data from stream", r.err))
    ELSE LET d == toRecords(r.resp)
         IN  IF d.err # NilErr
             THEN PollExit(Wrap("error converting stream data to records", d.err))
             ELSE /\ pollPc' = "handoff"
                  /\ pollRecords' = d.records
                  /\ UNCHANGED <<pollErr, cachesClosed, tombVars>>

\* XREAD on the open connection: the store answers, the transport fails, or
\* the answer arrives with an entry whose field list has a dangling name.
PollRead ==
    /\ Running
    /\ pollPc = "read"
    /\ client = "conn"
    /\ ~connClosed
    /\ \E outcome \in {"reply", "fail", "malformed"} :
         LET r == XRead(log, lastID, recordsPerCall)
         IN  IF outcome = "fail"
             THEN PollOnReply([err |-> ErrConn, resp |-> <<>>])
             ELSE IF outcome = "reply"
             THEN PollOnReply(r)
             ELSE /\ r.err = NilErr
                  /\ \E k \in 1..Len(r.resp[1].idList) :
                       PollOnReply([err |-> NilErr, resp |-> Truncated(r.resp, k)])
    /\ UNCHANGED <<lastID, caches, buffer, bufferClosed, cfgVars, decOut, storeVars, srcVars,
                   connVars, tickVars, flushVars, readVars, hostVars, destVars>>

\* XREAD answered with the response decResp: toRecords is applied to it once.
PollDecode ==
    /\ Running
    /\ pollPc = "read"
    /\ client = "conn"
    /\ ~connClosed
    /\ ~decOut.done
    /\ decOut' = [done |-> TRUE, records |-> toRecords(decResp).records,
                  err |-> toRecords(decResp).err]
    /\ PollOnReply([err |-> NilErr, resp |-> decResp])
    /\ UNCHANGED <<lastID, caches, buffer, bufferClosed, cfgVars, storeVars, srcVars,
                   connVars, tickVars, flushVars, readVars, hostVars, destVars>>

\* XREAD on a connection Stop has closed (i.client read before it was cleared).
PollReadClosed ==
    /\ Running
    /\ pollPc = "read"
    /\ connClosed
    /\ PollOnReply([err |-> ErrClosed, resp |-> <<>>])
    /\ UNCHANGED <<lastID, caches, buffer, bufferClosed, cfgVars, decOut, storeVars, srcVars,
                   connVars, tickVars, flushVars, readVars, hostVars, destVars>>

\* i.client.Do on the nil interface Stop left behind: nil pointer dereference.
PollReadNil ==
    /\ Running
    /\ pollPc = "read"
    /\ client = "nil"
    /\ pollPc' = "panic"
    /\ UNCHANGED <<pollRecords, pollErr, lastID, cfgVars, decOut, storeVars, srcVars, connVars,
                   tickVars, chanVars, tombVars, flushVars, readVars, hostVars, destVars>>

\* case i.caches <- records: i.lastID = position of the last record
\* (records[len(records)-1] of an empty batch is an index out of range).
PollHandoff ==
    /\ Running
    /\ pollPc = "handoff"
    /\ ~cachesClosed
    /\ Len(caches) < chanCap
    /\ caches' = Append(caches, pollRecords)
    /\ IF pollRecords = <<>>
       THEN /\ pollPc' = "panic"
            /\ UNCHANGED <<lastID, pollRecords>>
       ELSE /\ pollPc' = "select"
            /\ lastID' = LastPosition(pollRecords)
            /\ pollRecords' = <<>>
    /\ UNCHANGED <<pollErr, cachesClosed, buffer, bufferClosed, cfgVars, decOut, storeVars, srcVars,
                   connVars, tickVars, tombVars, flushVars, readVars, hostVars, destVars>>

\* case <-i.tomb.Dying(): return i.tomb.Err()
PollHandoffDying ==
    /\ Running
    /\ pollPc = "handoff"
    /\ dying
    /\ PollExit(reason)
    /\ UNCHANGED <<lastID, caches, buffer, bufferClosed, cfgVars, decOut, storeVars, srcVars,
                   connVars, tickVars, flushVars, readVars, hostVars, destVars>>

PollTask ==
    \/ PollDying
    \/ PollTick
    \/ PollRead
    \/ PollReadClosed
    \/ PollReadNil
    \/ PollHandoff
    \/ PollHandoffDying

\* ------------------------------------------------------ flush goroutine
\* The function returns err: the deferred close(i.buffer), then tomb.run.
FlushExit(err) ==
    /\ flushPc' = "done"
    /\ flushErr' = err
    /\ flushCache' = <<>>
    /\ bufferClosed' = TRUE
    /\ TombReturn(err)

\* case <-i.tomb.Dying(): return i.tomb.Err()
FlushDying ==
    /\ Running
    /\ flushPc = "select"
    /\ dying
    /\ FlushExit(reason)
    /\ UNCHANGED <<caches, cachesClosed, buffer, cfgVars, decOut, storeVars, srcVars, connVars,
                   tickVars, pollVars, readVars, hostVars, destVars>>

\* case cache := <-i.caches
FlushRecv ==
    /\ Running
    /\ flushPc = "select"
    /\ Len(caches) > 0
    /\ flushCache' = Head(caches)
    /\ caches' = Tail(caches)
    /\ flushPc' = IF Head(caches) = <<>> THEN "select" ELSE "push"
    /\ UNCHANGED <<flushErr, cachesClosed, buffer, bufferClosed, cfgVars, decOut, storeVars, srcVars,
                   connVars, tickVars, tombVars, pollVars, readVars, hostVars, destVars>>

\* case i.buffer <- record
FlushPush ==
    /\ Running
    /\ flushPc = "push"
    /\ ~bufferClosed
    /\ Len(buffer) < chanCap
    /\ buffer' = Append(buffer, Head(flushCache))
    /\ flushCache' = Tail(flushCache)
    /\ flushPc' = IF Tail(flushCache) = <<>> THEN "select" ELSE "push"
    /\ UNCHANGED <<flushErr, caches, cachesClosed, bufferClosed, cfgVars, decOut, storeVars, srcVars,
                   connVars, tickVars, tombVars, pollVars, readVars, hostVars, destVars>>

\* case <-i.tomb.Dying(): return i.tomb.Err()
FlushPushDying ==
    /\ Running
    /\ flushPc = "push"
    /\ dying
    /\ FlushExit(reason)
    /\ UNCHANGED <<caches, cachesClosed, buffer, cfgVars, decOut, storeVars, srcVars, connVars,
                   tickVars, pollVars, readVars, hostVars, destVars>>

FlushTask ==
    \/ FlushDying
    \/ FlushRecv
    \/ FlushPush
    \/ FlushPushDying

\* ------------------------------------------------------------- Source.Read
\* The error Read returns when Next failed (mutant: Next's error unwrapped).
ReadErr_unwrapped(err) == err

ReadErr(err) == Wrap("error fetching next record", err)

ReadReturn(kind, rec, err) ==
    /\ readPc' = "idle"
    /\ readResult' = [kind |-> kind, rec |-> rec, err |-> err]

Deliver(rec) == delivered' = IF Len(delivered) <= MaxLog THEN Append(delivered, rec) ELSE delivered

\* Read up to the call of Next: the backoff signal when HasNext is false.
ReadCall ==
    /\ Running
    /\ readPc = "idle"
    /\ srcIter = "stream"
    /\ IF ~HasNext
       THEN ReadReturn("backoff", EmptyRecord, ErrBackoffRetry)
       ELSE /\ readPc' = "next"
            /\ readResult' = [kind |-> "none", rec |-> EmptyRecord, err |-> NilErr]
    /\ UNCHANGED <<delivered, cfgVars, decOut, storeVars, srcVars, connVars, tickVars, chanVars,
                   tombVars, pollVars, flushVars, hostVars, destVars>>

\* Next, case rec := <-i.buffer, with a record in the channel.
NextRecord ==
    /\ Running
    /\ readPc = "next"
    /\ Len(buffer) > 0
    /\ buffer' = Tail(buffer)
    /\ ReadReturn("record", Head(buffer), NilErr)
    /\ Deliver(Head(buffer))
    /\ UNCHANGED <<caches, cachesClosed, bufferClosed, cfgVars, decOut, storeVars, srcVars, connVars,
                   tickVars, tombVars, pollVars, flushVars, hostVars, destVars>>

\* Next, case rec := <-i.buffer, on the closed and drained channel: the
\* receive yields the zero Record.
NextClosed ==
    /\ Running
    /\ readPc = "next"
    /\ Len(buffer) = 0
    /\ bufferClosed
    /\ ReadReturn("record", EmptyRecord, NilErr)
    /\ Deliver(EmptyRecord)
    /\ UNCHANGED <<cfgVars, decOut, storeVars, srcVars, connVars, tickVars, chanVars, tombVars,
                   pollVars, flushVars, hostVars, destVars>>

\* Next, case <-i.tomb.Dying()
NextDying ==
    /\ Running
    /\ readPc = "next"
    /\ dying
    /\ ReadReturn("error", EmptyRecord, ReadErr(reason))
    /\ UNCHANGED <<delivered, cfgVars, decOut, storeVars, srcVars, connVars, tickVars, chanVars,
                   tombVars, pollVars, flushVars, hostVars, destVars>>

\* Next, case <-ctx.Done(): the context of this Read call is cancelled.
NextCtxDone ==
    /\ Running
    /\ readPc = "next"
    /\ ReadReturn("error", EmptyRecord, ReadErr(ErrCanceled))
    /\ UNCHANGED <<delivered, cfgVars, decOut, storeVars, srcVars, connVars, tickVars, chanVars,
                   tombVars, pollVars, flushVars, hostVars, destVars>>

Consumer ==
    \/ ReadCall
    \/ NextRecord
    \/ NextClosed
    \/ NextDying
    \/ NextCtxDone

\* --------------------------------------------- Source.Teardown and Stop
\* Teardown up to Stop's close of the connection: with an iterator set,
\* ticker.Stop() and tomb.Kill(errors.New("iterator stopped")).
TeardownCall ==
    /\ Running
    /\ role = "source"
    /\ openErr # Pending
    /\ hostPc = "idle"
    /\ IF srcIter = "stream"
       THEN /\ stopCalls < MaxTeardown
            /\ stopCalls' = stopCalls + 1
            /\ tickerStopped' = TRUE
            /\ Kill(ErrStopped)
            /\ hostPc' = "close"
            /\ UNCHANGED <<teardownErr, srcIter>>
       ELSE IF srcIter = "pubsub"
       THEN /\ stopCalls < MaxTeardown
            /\ stopCalls' = stopCalls + 1
            /\ \E ok \in BOOLEAN :
                 /\ teardownErr' = IF ok THEN NilErr ELSE ErrConn
                 /\ srcIter' = IF ok THEN "nil" ELSE srcIter
            /\ UNCHANGED <<hostPc, tickerStopped, reason, dying>>
       ELSE /\ teardownErr' = NilErr
            /\ UNCHANGED <<hostPc, stopCalls, tickerStopped, srcIter, reason, dying>>
    /\ UNCHANGED <<openErr, client, connClosed, closeCalls, tickerC, alive, cfgVars, decOut, storeVars,
                   chanVars, pollVars, flushVars, readVars, destVars>>

\* i.client.Close(): an error ends Stop and Teardown before anything is cleared.
StopClose ==
    /\ Running
    /\ hostPc = "close"
    /\ closeCalls' = closeCalls + 1
    /\ connClosed' = TRUE
    /\ \E ok \in BOOLEAN :
         IF ok
         THEN /\ hostPc' = "clear"
              /\ UNCHANGED teardownErr
         ELSE /\ hostPc' = "idle"
              /\ teardownErr' = Wrap("error closing the redis client", ErrConn)
    /\ UNCHANGED <<client, stopCalls, cfgVars, decOut, storeVars, srcVars, tickVars,
                   chanVars, tombVars, pollVars, flushVars, readVars, destVars>>

\* i.client = nil; back in Teardown, s.iterator = nil
StopClear ==
    /\ Running
    /\ hostPc = "clear"
    /\ client' = "nil"
    /\ srcIter' = "nil"
    /\ teardownErr' = NilErr
    /\ hostPc' = "idle"
    /\ UNCHANGED <<openErr, connClosed, closeCalls, stopCalls, cfgVars, decOut,
                   storeVars, tickVars, chanVars, tombVars, pollVars, flushVars, readVars,
                   destVars>>

Host ==
    \/ TeardownCall
    \/ StopClose
    \/ StopClear

\* -------------------------------------------------------------- Destination
\* Payload.After of a record handed to Write: its bytes parse as a JSON
\* object with these fields, or do not parse as an object at all.
Payloads ==
    { [json |-> "object", fields |-> {<<"a", "1">>, <<"b", "2">>}],
      [json |-> "object", fields |-> {}],
      [json |-> "malformed", fields |-> {}] }

RecLists == UNION {[1..n -> Payloads] : n \in 0..MaxWrite}

\* (mutant: an object without pairs is not rejected)
payloadToStreamArgs_allowsEmpty(payload) ==
    IF payload.json # "object"
    THEN [args |-> {}, err |-> <<"invalid json received in payload">>]
    ELSE [args |-> payload.fields, err |-> NilErr]

\* payloadToStreamArgs: the object's pairs as XADD arguments (Go's map order
\* is unspecified, so the arguments are the set of pairs).
payloadToStreamArgs(payload) ==
    IF payload.json # "object"
    THEN [args |-> {}, err |-> <<"invalid json received in payload">>]
    ELSE IF payload.fields = {}
    THEN [args |-> {}, err |-> <<"no key-value pair received">>]
    ELSE [args |-> payload.fields, err |-> NilErr]

\* Destination.validateKey
validateKey(m, typeOk, kt) ==
    IF m = ModePubSub THEN NilErr
    ELSE IF m = ModeStream THEN KeyTypeErr(typeOk, kt)
    ELSE <<"invalid mode encountered">>

\* The loop of Destination.Write from record i (1-based) on.  The store fails
\* the command issued for record failAt (0: none), having applied it or not.
RECURSIVE WriteFrom(_, _, _, _, _, _)
WriteFrom(m, recs, i, failAt, appliedOnFail, acc) ==
    IF i > Len(recs)
    THEN [acc EXCEPT !.n = Len(recs)]
    ELSE LET a == payloadToStreamArgs(recs[i])
             cmd == IF m = ModePubSub
                    THEN [cmd |-> "PUBLISH", key |-> RedisKey, arg |-> recs[i]]
                    ELSE [cmd |-> "XADD", key |-> RedisKey, arg |-> a.args]
         IN  IF m = ModeStream /\ a.err # NilErr
             THEN [acc EXCEPT !.n = i - 1, !.err = Wrap("invalid payload", a.err)]
             ELSE IF failAt = i
             THEN [acc EXCEPT !.n = i - 1,
                              !.err = Wrap(IF m = ModePubSub
                                           THEN "error publishing message to channel"
                                           ELSE "error streaming message to key", ErrConn),
                              !.issued = Append(@, cmd),
                              !.applied = IF appliedOnFail THEN Append(@, cmd) ELSE @]
             ELSE WriteFrom(m, recs, i + 1, failAt, appliedOnFail,
                            [acc EXCEPT !.issued = Append(@, cmd), !.applied = Append(@, cmd)])

WriteResult(m, recs, failAt, appliedOnFail) ==
    IF m = ModePubSub \/ m = ModeStream
    THEN WriteFrom(m, recs, 1, failAt, appliedOnFail,
                   [n |-> 0, err |-> NilErr, issued |-> <<>>, applied |-> <<>>])
    ELSE [n |-> 0, err |-> <<"invalid mode encountered">>, issued |-> <<>>, applied |-> <<>>]

DestOpen ==
    /\ role = "destination"
    /\ dOpenErr = Pending
    /\ \E dialOk \in BOOLEAN, typeOk \in BOOLEAN :
         IF ~dialOk
         THEN /\ dOpenErr' = Wrap("failed to connect redis client", ErrConn)
              /\ UNCHANGED dClient
         ELSE /\ dClient' = "conn"
              /\ dOpenErr' = validateKey(mode, typeOk, keyType)
    /\ UNCHANGED <<dStore, dRecs, dIssued, dWritten, dWriteErr, dCloseCalls, cfgVars, decOut,
                   storeVars, srcVars, connVars, tickVars, chanVars, tombVars, pollVars,
                   flushVars, readVars, hostVars>>

DestWrite ==
    /\ role = "destination"
    /\ dOpenErr = NilErr
    /\ dCloseCalls = 0
    /\ \E recs \in RecLists :
         \E failAt \in 0..Len(recs), appliedOnFail \in BOOLEAN :
           LET w == WriteResult(mode, recs, failAt, appliedOnFail)
           IN  /\ failAt = 0 => ~appliedOnFail
               /\ Len(dStore) + Len(w.applied) <= MaxStore
               /\ dRecs' = recs
               /\ dIssued' = w.issued
               /\ dStore' = dStore \o w.applied
               /\ dWritten' = w.n
               /\ dWriteErr' = w.err
    /\ UNCHANGED <<dClient, dOpenErr, dCloseCalls, cfgVars, decOut, storeVars, srcVars, connVars,
                   tickVars, chanVars, tombVars, pollVars, flushVars, readVars, hostVars>>

\* Destination.Teardown: closes the client whenever it is set.
DestTeardown ==
    /\ role = "destination"
    /\ dOpenErr # Pending
    /\ dClient # "nil"
    /\ dCloseCalls < MaxTeardown
    /\ dCloseCalls' = dCloseCalls + 1
    /\ UNCHANGED <<dClient, dOpenErr, dStore, dRecs, dIssued, dWritten, dWriteErr, cfgVars, decOut,
                   storeVars, srcVars, connVars, tickVars, chanVars, tombVars, pollVars,
                   flushVars, readVars, hostVars>>

\* ----------------------------------------------------------- specification
Next ==
    \/ AppendEntry
    \/ Tick
    \/ OpenCtxCancel
    \/ SourceOpen
    \/ PollTask
    \/ FlushTask
    \/ Consumer
    \/ Host
    \/ DestOpen
    \/ DestWrite
    \/ DestTeardown

Spec == Init /\ [][Next]_vars

\* The Go scheduler runs every goroutine that can take a step, the ticker
\* fires while it is not stopped, and the host keeps calling Read.
FairSpec ==
    /\ Spec
    /\ WF_vars(Tick)
    /\ WF_vars(PollTask)
    /\ WF_vars(FlushTask)
    /\ WF_vars(Consumer)
    /\ WF_vars(Host)


\* The source pipeline while the host neither tears it down nor cancels the
\* Open context: the runs the no-loss guarantee is about.
LiveInit ==
    /\ Init
    /\ role = "source"
    /\ mode = ModeStream

LiveNext ==
    \/ AppendEntry
    \/ Tick
    \/ SourceOpen
    \/ PollTick
    \/ PollRead
    \/ PollHandoff
    \/ FlushTask
    \/ Consumer

\* Go's select picks among its ready cases at random, so a record waiting in
\* the buffer is not passed over for ever (strong fairness of NextRecord).
LiveSpec ==
    /\ LiveInit
    /\ [][LiveNext]_vars
    /\ WF_vars(Tick)
    /\ WF_vars(PollTick \/ PollRead \/ PollHandoff)
    /\ WF_vars(FlushTask)
    /\ WF_vars(Consumer)
    /\ SF_vars(NextRecord)

\* A stream source on an existing stream, opened without a resume position,
\* while neither the context of Open nor that of a Read is cancelled: appends,
\* ticks, both goroutines, Read and Teardown.
FailInit ==
    /\ Init
    /\ role = "source"
    /\ mode = ModeStream
    /\ position = <<>>
    /\ keyType = keyTypeStream

FailNext ==
    \/ AppendEntry
    \/ Tick
    \/ SourceOpen
    \/ PollTask
    \/ FlushTask
    \/ ReadCall
    \/ NextRecord
    \/ NextClosed
    \/ NextDying
    \/ Host

FailSpec ==
    /\ FailInit
    /\ [][FailNext]_vars
    /\ WF_vars(Tick)
    /\ WF_vars(PollTask)
    /\ WF_vars(FlushTask)
    /\ WF_vars(ReadCall \/ NextRecord \/ NextClosed \/ NextDying)
    /\ WF_vars(Host)

\* A stream source that is never torn down, whose Open context may be
\* cancelled: appends, ticks, both goroutines and Read.  The ticker keeps
\* firing after the cancellation; select picks among its ready cases at
\* random, so the poll goroutine does not take the tick for ever while Dying
\* is ready (strong fairness of PollDying).
CancelInit ==
    /\ Init
    /\ role = "source"
    /\ mode = ModeStream

CancelNext ==
    \/ AppendEntry
    \/ Tick
    \/ OpenCtxCancel
    \/ SourceOpen
    \/ PollDying
    \/ PollTick
    \/ PollRead
    \/ PollHandoff
    \/ PollHandoffDying
    \/ FlushTask
    \/ Consumer

CancelSpec ==
    /\ CancelInit
    /\ [][CancelNext]_vars
    /\ WF_vars(Tick)
    /\ WF_vars(PollDying \/ PollTick \/ PollRead \/ PollHandoff \/ PollHandoffDying)
    /\ SF_vars(PollDying)
    /\ WF_vars(FlushTask)
    /\ WF_vars(Consumer)

\* The pipeline fed one response chosen from Responses: what toRecords makes
\* of it and where its records go.
DecodeInit ==
    /\ role = "source"
    /\ mode = ModeStream
    /\ position = <<>>
    /\ keyType = keyTypeStream
    /\ decResp \in Responses
    /\ Unopened

DecodeNext ==
    \/ SourceOpen
    \/ Tick
    \/ PollTick
    \/ PollDecode
    \/ PollHandoff
    \/ FlushRecv
    \/ FlushPush
    \/ FlushDying
    \/ Consumer

DecodeSpec == DecodeInit /\ [][DecodeNext]_vars

\* ===================================================================== claims
\* What the claims call the start cursor of a resume position.
ResumeCursor == IF position = <<>> THEN <<0, 0>> ELSE position

\* The log entries after the resume position, as the records they decode to.
IsPrefix(s, t) == Len(s) <= Len(t) /\ \A k \in 1..Len(s) : s[k] = t[k]
Sig(rec) == <<rec.Position, rec.Key, rec.Payload>>
EntrySig(e) == <<e.id, RedisKey, {<<e.fields[1], e.fields[2]>>}>>
ExpectedSigs ==
    LET es == EntriesAfter(log, ResumeCursor) IN [k \in 1..Len(es) |-> EntrySig(es[k])]
Sigs(records) == [k \in 1..Len(records) |-> Sig(records[k])]

Started == pollPc # "none"
InFlight == buffer \o flushCache \o (IF caches = <<>> THEN <<>> ELSE caches[1]) \o pollRecords

\* C1: while the pipeline is alive, the records Next has returned, followed by
\* the records still in the record relay, in the flush task, in the batch relay
\* and in the poll task, are a prefix of the log entries after the start cursor
\* in log order: nothing is delivered twice, skipped or reordered.
C1_DeliveryIsLogPrefix ==
    (Started /\ Alive) => IsPrefix(Sigs(delivered \o InFlight), ExpectedSigs)

C1_Witness ==
    /\ Alive
    /\ Len(delivered) >= 2
    /\ Len(buffer) = 1
    /\ delivered[1].Position # delivered[2].Position

\* C2: a Next call that returns once Stop or a poll failure has raised the
\* termination latch returns an error, never a nil error.
C2_NextAfterTerminationFails ==
    [][(dying /\ reason # ErrCanceled /\ readPc = "next" /\ readPc' = "idle")
           => readResult'.err # NilErr]_vars

\* C3: HasNext is true exactly when the record relay holds a record or the
\* termination latch has been raised.
C3_HasNextIffRecordOrTerminated ==
    Started => (HasNext <=> (Len(buffer) > 0 \/ dying))

C3_Witness ==
    /\ Started
    /\ dying
    /\ Len(buffer) = 0
    /\ bufferClosed
    /\ HasNext

\* C4: Read with HasNext false returns the backoff signal and touches neither
\* the relay nor the delivered records; with HasNext true it enters Next, and
\* when Next returns Read returns either the record with a nil error or an
\* empty record with Next's error wrapped as a read failure, never backoff.
C4_ReadContract ==
    [][/\ (readPc = "idle" /\ readVars' # readVars) =>
            IF ~HasNext
            THEN /\ readPc' = "idle"
                 /\ readResult' = [kind |-> "backoff", rec |-> EmptyRecord, err |-> ErrBackoffRetry]
                 /\ buffer' = buffer
                 /\ delivered' = delivered
            ELSE /\ readPc' = "next"
                 /\ buffer' = buffer
                 /\ delivered' = delivered
       /\ (readPc = "next" /\ readPc' = "idle") =>
            \/ /\ readResult'.kind = "record"
               /\ readResult'.err = NilErr
               /\ delivered' # delivered => delivered' = Append(delivered, readResult'.rec)
            \/ /\ readResult'.kind = "error"
               /\ readResult'.rec = EmptyRecord
               /\ Len(readResult'.err) >= 2
               /\ readResult'.err[1] = "error fetching next record"
               /\ readResult'.err # ErrBackoffRetry
               /\ buffer' = buffer
               /\ delivered' = delivered
      ]_vars

C4_Witness ==
    /\ readPc = "idle"
    /\ readResult.kind = "error"
    /\ Len(delivered) >= 1

\* C5: Write applies the records in list order; it returns k with an error when
\* record k (0-based) is the first one rejected or refused by the store, having
\* applied records 0..k-1 once each and issued nothing after record k; it
\* returns N with a nil error when no record fails.
Rejected(rec) == mode = ModeStream /\ (rec.json # "object" \/ rec.fields = {})
CmdFor(rec) ==
    IF mode = ModePubSub
    THEN [cmd |-> "PUBLISH", key |-> RedisKey, arg |-> rec]
    ELSE [cmd |-> "XADD", key |-> RedisKey, arg |-> rec.fields]
CmdsFor(recs, n) == [j \in 1..n |-> CmdFor(recs[j])]

C6_StopEndsBothTasks ==
    (reason = ErrStopped /\ pollPc \in {"select", "read", "handoff"} /\ flushPc \in {"select", "push"})
        ~> (pollPc = "done" /\ flushPc = "done" /\ reason = ErrStopped)

\* C7: however often Teardown is called, Stop runs once and the connection is
\* closed once.
C7_StopAndCloseOnce ==
    (role = "source" /\ mode = ModeStream) => (stopCalls <= 1 /\ closeCalls <= 1)

\* C8: the iterator starts from the resume position (0-0 when it is empty): the
\* first batch is the log after that position, the first record delivered is the
\* position's successor, and once the consumer has received the n records
\* fetched so far the cursor is the n-th entry's id (n = 3 in the scenario).
NothingFetched == delivered = <<>> /\ InFlight = <<>>

C8_ResumeFromPosition ==
    /\ [](Started /\ Alive /\ delivered # <<>> => Sig(delivered[1]) = ExpectedSigs[1])
    /\ [](Started /\ Alive /\ InFlight = <<>> /\ delivered # <<>> /\ Len(delivered) <= MaxLog =>
             /\ Sigs(delivered) = SubSeq(ExpectedSigs, 1, Len(delivered))
             /\ lastID = ExpectedSigs[Len(delivered)][1])
    /\ [][(Alive /\ NothingFetched /\ pollPc = "read" /\ pollPc' = "handoff") =>
             Sigs(pollRecords') = ExpectedSigs]_vars
    /\ [][(Alive /\ NothingFetched /\ pollPc = "handoff" /\ pollPc' = "select") =>
             lastID' = ExpectedSigs[Len(pollRecords)][1]]_vars

C8_Witness ==
    /\ position # <<>>
    /\ Alive
    /\ Len(delivered) = 2
    /\ InFlight = <<>>
    /\ lastID = EntryId(3)

C8_WitnessScenario ==
    /\ position = <<>>
    /\ Alive
    /\ Len(delivered) = 3
    /\ InFlight = <<>>
    /\ lastID = EntryId(3)

\* C9: while the pipeline stays alive, every entry in the log after the start
\* cursor is eventually returned to the consumer.
C9_NoLoss ==
    ([]Alive) =>
        \A k \in 1..MaxLog :
            (Started /\ Len(ExpectedSigs) >= k)
                ~> (/\ Len(ExpectedSigs) >= k
                    /\ \E j \in 1..Len(delivered) : Sig(delivered[j]) = ExpectedSigs[k])

C9_Witness ==
    /\ Alive
    /\ Len(ExpectedSigs) >= 2
    /\ \A k \in 1..Len(ExpectedSigs) : \E j \in 1..Len(delivered) : Sig(delivered[j]) = ExpectedSigs[k]

\* C10: in stream mode a key of another type makes Source.Open fail without
\* starting a task or reading, and makes Destination.Open fail; an absent or
\* stream key is not rejected for its type; the destination does not check the
\* type in pubsub mode; an unknown mode is an error in both.
InvalidKeyType == <<"invalid key type, expected none or stream">>
HasCause(err, cause) == Len(err) >= 1 /\ SubSeq(err, Len(err), Len(err)) = cause

C10_KeyTypeCheckAtOpen ==
    /\ (role = "source" /\ openErr # Pending) =>
         /\ (mode = ModeStream /\ keyType = "string") =>
              /\ openErr # NilErr
              /\ pollPc = "none" /\ flushPc = "none" /\ srcIter = "nil" /\ client = "none"
         /\ (mode = ModeStream /\ keyType # "string") => ~HasCause(openErr, InvalidKeyType)
         /\ (mode \notin {ModeStream, ModePubSub}) => (openErr # NilErr /\ pollPc = "none")
    /\ (role = "destination" /\ dOpenErr # Pending) =>
         /\ (mode = ModeStream /\ keyType = "string") => dOpenErr # NilErr
         /\ (mode = ModeStream /\ keyType # "string") => ~HasCause(dOpenErr, InvalidKeyType)
         /\ (mode = ModePubSub) => dOpenErr \in {NilErr, Wrap("failed to connect redis client", ErrConn)}
         /\ (mode \notin {ModeStream, ModePubSub}) => dOpenErr # NilErr

C10_Witness ==
    /\ role = "source"
    /\ mode = ModeStream
    /\ keyType = "string"
    /\ HasCause(openErr, InvalidKeyType)

\* The entries of a response in the order the store sent them.
RECURSIVE FlatEntries(_, _)
FlatEntries(resp, j) ==
    IF j > Len(resp) THEN <<>> ELSE resp[j].idList \o FlatEntries(resp, j + 1)

DecEntries == FlatEntries(decResp, 1)
OddAt(es, k) == Len(es[k].fieldList) % 2 = 1
WellFormed(es) == \A k \in 1..Len(es) : ~OddAt(es, k)
FirstOdd(es) == CHOOSE k \in 1..Len(es) : OddAt(es, k) /\ \A k2 \in 1..(k - 1) : ~OddAt(es, k2)

\* The name/value pairs of a field list as a map: a name maps to the value of
\* its last pair.
FoldedPairs(fl) ==
    {<<fl[2 * j - 1], fl[2 * j]>> : j \in {j1 \in 1..(Len(fl) \div 2) :
        \A j2 \in (j1 + 1)..(Len(fl) \div 2) : fl[2 * j2 - 1] # fl[2 * j1 - 1]}}

\* C11: decoding a response whose field lists all have even length returns no
\* error and one record per entry, in the order of the entries; record i has
\* entry i's id as its non-empty position and entry i's name/value pairs,
\* folded into a map, as its payload.
C11_DecodeWellFormed ==
    (decOut.done /\ WellFormed(DecEntries)) =>
        /\ decOut.err = NilErr
        /\ Len(decOut.records) = Len(DecEntries)
        /\ \A i \in 1..Len(DecEntries) :
              /\ decOut.records[i].Position = DecEntries[i].position
              /\ decOut.records[i].Position # <<>>
              /\ decOut.records[i].Payload = FoldedPairs(DecEntries[i].fieldList)

C11_Witness ==
    /\ decOut.done
    /\ WellFormed(DecEntries)
    /\ Len(decResp) = 2
    /\ Len(decOut.records) = 2
    /\ decOut.records[1].Position # decOut.records[2].Position
    /\ decOut.records[2].Payload = {<<"f", "w">>}

\* C12: decoding a response with an entry whose field list has odd length
\* returns the structural error and records for the entries before that entry
\* only; the poll task exits with the error, and no record of the response is
\* handed to the batch relay, pushed to the record relay or returned by Next.
C12_DecodeOddFieldList ==
    (decOut.done /\ ~WellFormed(DecEntries)) =>
        /\ HasCause(decOut.err, ErrOddValues)
        /\ Len(decOut.records) = FirstOdd(DecEntries) - 1
        /\ \A i \in 1..Len(decOut.records) :
              decOut.records[i].Position = DecEntries[i].position
        /\ pollPc = "done"
        /\ HasCause(pollErr, ErrOddValues)
        /\ pollRecords = <<>> /\ caches = <<>> /\ flushCache = <<>> /\ buffer = <<>>
        /\ lastID = ZeroID
        /\ \A j \in 1..Len(delivered) : delivered[j] = EmptyRecord

C12_Witness ==
    /\ decOut.done
    /\ Len(DecEntries) = 2
    /\ ~OddAt(DecEntries, 1)
    /\ OddAt(DecEntries, 2)
    /\ Len(decOut.records) = 1
    /\ flushPc = "done"
    /\ readResult.kind = "error"

\* C13: every record decoded from a response with increasing ids whose position
\* leads with a non-zero timestamp has that timestamp as its creation time,
\* whatever is decoded after it.
IdsIncreasing(es) == \A k \in 1..(Len(es) - 1) : IdLess(es[k].position, es[k + 1].position)

C13_CreatedAtFromOwnPosition ==
    (decOut.done /\ IdsIncreasing(DecEntries)) =>
        \A i \in 1..Len(decOut.records) :
            decOut.records[i].Position[1] # 0 =>
                decOut.records[i].Metadata.createdAt = decOut.records[i].Position[1]

\* C14: the cursor changes only in the step that hands a decoded batch to the
\* batch relay; that step sets it to the position of the batch's last record,
\* which is after the cursor the batch was read from; it never moves back.
C14_CursorDiscipline ==
    [][Started =>
         /\ (lastID' # lastID) =>
               (pollPc = "handoff" /\ pollRecords # <<>> /\ caches' = Append(caches, pollRecords))
         /\ (pollPc = "handoff" /\ Len(caches') > Len(caches)) =>
               /\ lastID' = pollRecords[Len(pollRecords)].Position
               /\ IdLess(lastID, lastID')
         /\ ~IdLess(lastID', lastID)
      ]_vars

C14_Witness ==
    /\ Started
    /\ position = <<>>
    /\ lastID = EntryId(3)
    /\ Len(caches) = 1
    /\ Len(caches[1]) = 1
    /\ delivered # <<>>

\* C15: at most two decoded batches are held ahead of the consumer, one in the
\* batch relay and one in the flush task, the poll task holding none while
\* those two exist; at most one record waits in the record relay.
BatchesHeld ==
    (IF pollRecords # <<>> THEN 1 ELSE 0) + Len(caches) + (IF flushCache # <<>> THEN 1 ELSE 0)

C15_BackpressureBound ==
    (Started /\ Running) => (BatchesHeld <= 2 /\ Len(buffer) <= 1)

\* C16: Stop never closes or clears the connection while the poll task is
\* between taking a tick and the return of its read, and the poll task never
\* issues a read on a connection Stop has closed or cleared.
C16_ConnectionNotShared ==
    [][/\ (pollPc = "read" /\ pollPc' # "read") => (client = "conn" /\ ~connClosed)
       /\ (connClosed' # connClosed \/ (Started /\ client' # client)) => pollPc # "read"
      ]_vars

\* C17: the latch is raised once and never lowered, its reason is the one given
\* by whatever raised it and never changes afterwards; Next's latch case and
\* the flush task return that reason, and a poll task that fails after the
\* latch was raised leaves it alone.
PollFailure(err) ==
    /\ Len(err) >= 1
    /\ err[1] \in {"error reading data from stream", "error converting stream data to records"}

C17_LatchSticky ==
    /\ [](Started => (dying <=> reason # ErrStillAlive))
    /\ [](flushPc = "done" => flushErr = reason)
    /\ [](pollPc = "done" => (pollErr = reason \/ PollFailure(pollErr)))
    /\ [][Started =>
            /\ dying => dying'
            /\ (reason # ErrStillAlive) => (reason' = reason)
            /\ (~dying /\ dying') =>
                  \/ reason' = ErrStopped /\ stopCalls' = stopCalls + 1
                  \/ reason' = ErrCanceled /\ pollVars' = pollVars
                  \/ reason' = pollErr' /\ PollFailure(pollErr') /\ pollPc = "read"
            /\ (readPc = "next" /\ readPc' = "idle" /\ readResult'.kind = "error") =>
                  readResult'.err \in {ReadErr(reason), ReadErr(ErrCanceled)}
         ]_vars

C17_Witness ==
    /\ reason = ErrStopped
    /\ pollErr = Wrap("error reading data from stream", ErrClosed)
    /\ readResult.err = ReadErr(ErrStopped)

\* C18: once the latch is raised the poll task hands over no batch, the cursor
\* does not move and the flush task pushes no record.
C18_TerminationWinsOverOutput ==
    [][dying =>
         /\ ~(pollPc = "handoff" /\ Len(caches') > Len(caches))
         /\ lastID' = lastID
         /\ ~(flushPc = "push" /\ Len(buffer') > Len(buffer))
      ]_vars

\* C19 as stated: a failed read or decode ends the poll task at once, with no
\* handoff and no cursor change then or later, the latch carries that error,
\* and the flush task exits too.
C19_SafetyPart ==
    /\ (pollPc = "read" /\ pollPc' = "done") =>
          /\ PollFailure(pollErr')
          /\ caches' = caches
          /\ lastID' = lastID
          /\ dying'
    /\ (pollPc = "done") => (pollPc' = "done" /\ lastID' = lastID /\ pollErr' = pollErr
                               /\ Len(caches') <= Len(caches))

C19_FatalFailureKills ==
    /\ [][C19_SafetyPart]_vars
    /\ [](PollFailure(pollErr) => reason = pollErr)
    /\ (PollFailure(pollErr) ~> flushPc = "done")

\* C19 amended: as above, but the latch carries that error only when it was
\* not raised before the failure; otherwise it keeps its earlier reason.
C19_FatalFailureKills_Amended ==
    /\ [][C19_SafetyPart]_vars
    /\ [][(pollPc = "read" /\ pollPc' = "done") =>
             reason' = (IF dying THEN reason ELSE pollErr')]_vars
    /\ [](PollFailure(pollErr) => (dying /\ reason # ErrStillAlive))
    /\ (PollFailure(pollErr) ~> flushPc = "done")

C19_Witness ==
    /\ pollErr = Wrap("error converting stream data to records",
                      Wrap("error converting the []interface{} to map", ErrOddValues))
    /\ reason = pollErr
    /\ flushPc = "done"
    /\ lastID = EntryId(2)
    /\ Len(log) = 3

PollLive == pollPc \in {"select", "read", "handoff"}
FlushLive == flushPc \in {"select", "push"}

C21_RelayClosingSafe ==
    /\ [](PollLive => ~cachesClosed)
    /\ [](FlushLive => ~bufferClosed)
    /\ [](pollPc = "done" => cachesClosed)
    /\ [](flushPc = "done" => bufferClosed)
    /\ [][/\ (cachesClosed' # cachesClosed) => (~cachesClosed /\ PollLive /\ pollPc' = "done")
          /\ (bufferClosed' # bufferClosed) => (~bufferClosed /\ FlushLive /\ flushPc' = "done")
          /\ (Len(caches') > Len(caches)) => (~cachesClosed /\ ~cachesClosed' /\ pollPc = "handoff")
          /\ (Len(buffer') > Len(buffer)) => (~bufferClosed /\ ~bufferClosed' /\ flushPc = "push")
         ]_vars

C21_Witness ==
    /\ cachesClosed
    /\ bufferClosed
    /\ stopCalls = 2
    /\ PollFailure(pollErr)
    /\ delivered # <<>>

\* C22: a Read takes at most two steps of the consumer: it returns the backoff
\* signal at once or enters Next, and while it is in Next a record is in the
\* record relay or the latch is raised, so Next has a case ready and its next
\* step returns a record or a wrapped error.
NextReady == Len(buffer) > 0 \/ dying

C22_ReadNeverWaits ==
    /\ []((readPc = "next" /\ Running) => NextReady)
    /\ [][/\ (readPc = "idle" /\ readVars' # readVars) =>
               \/ readPc' = "idle" /\ readResult'.kind = "backoff"
               \/ readPc' = "next" /\ NextReady'
          /\ (readPc = "next" /\ readVars' # readVars) =>
               /\ readPc' = "idle"
               /\ readResult'.kind \in {"record", "error"}
          /\ (readPc = "next" /\ Len(buffer) > 0) => Len(buffer') > 0 \/ readPc' = "idle"
         ]_vars

C22_Witness ==
    /\ readPc = "next"
    /\ ~dying
    /\ Len(buffer) = 1
    /\ Len(delivered) = 1
    /\ flushPc = "push"

\* C23: whatever response the read returned without error, the batch the poll
\* task is about to hand over, and every batch in the batch relay, holds at
\* least one record, and the poll task does not fail taking the last record.
C23_BatchesNonEmpty ==
    /\ (pollPc = "handoff") => pollRecords # <<>>
    /\ \A k \in 1..Len(caches) : caches[k] # <<>>
    /\ pollPc # "panic"

\* C24: when the Open context is cancelled the latch is raised with the
\* context's error, both tasks eventually exit, HasNext is true from then on
\* and a Next call that returns once nothing is left in the record relay
\* returns that error; a Next call whose own context is cancelled returns the
\* context's error and changes nothing else.
PipelineVars == <<chanVars, tombVars, pollVars, flushVars, tickVars, connVars, delivered>>

C24_PipelineEndsOnCancel ==
    [][(~dying /\ dying' /\ pollVars' = pollVars /\ stopCalls' = stopCalls) =>
          reason' = ErrCanceled]_vars

C24_CancelKeepsHasNext ==
    [](reason = ErrCanceled => (dying /\ HasNext))

C24_TasksExitOnCancel ==
    (reason = ErrCanceled) ~> (pollPc = "done" /\ flushPc = "done" /\ reason = ErrCanceled)

C24_NextCtxLeavesPipeline ==
    [][(readPc = "next" /\ readPc' = "idle" /\ readResult'.kind = "error"
            /\ readResult'.err = ReadErr(ErrCanceled) /\ reason # ErrCanceled) =>
          (readResult'.rec = EmptyRecord /\ PipelineVars' = PipelineVars)]_vars

C24_ContextCancellation ==
    /\ C24_PipelineEndsOnCancel
    /\ C24_CancelKeepsHasNext
    /\ C24_TasksExitOnCancel
    /\ C24_NextCtxLeavesPipeline
    /\ [][(reason = ErrCanceled /\ readPc = "next" /\ readPc' = "idle" /\ Len(buffer) = 0) =>
             readResult'.err = ReadErr(ErrCanceled)]_vars

====
